---- MODULE Spec2Model ----
(***************************************************************************)
(* Model of the experiment-results analyzer in src/Nicolaas/evaluator.py   *)
(* (minimization variant, "min") and src/Nicolaas/evaluator_v2.py          *)
(* (maximization variant, "max").                                          *)
(*                                                                         *)
(* The program is one linear pipeline, main_analysis:                      *)
(*   load_and_prepare_data -> analyze_quality_and_robustness ->            *)
(*   analyze_efficiency_and_tradeoff -> visualize_results -> report        *)
(* Each stage is one action, but for visualize_results, which waits in     *)
(* plt.show() and is two.  An uncaught Python exception ends the run in a  *)
(* state whose pc names the exception.                                     *)
(*                                                                         *)
(* Numbers.  The columns are float64 in the program.  They are modelled    *)
(* exactly: a finite value is a normalised fraction n/d, and the IEEE      *)
(* specials NaN, +inf and -inf that division by zero produces are values   *)
(* of their own.  A sample standard deviation is c * sqrt(r) with c and r  *)
(* fractions.  Rounding error of float64 is not modelled.                  *)
(*                                                                         *)
(* Missing values.  A CSV cell that is empty loads as NaN.  The cells of   *)
(* strategy, alpha, op_set and seed are records [na, v]; final_obj,        *)
(* total_time and iterations are numeric in every table considered here.   *)
(***************************************************************************)
EXTENDS Integers, Sequences, FiniteSets, TLC

\* Largest number of rows of an input table.
MaxRows == 3

(***************************************************************************)
(* float64 values, exactly                                                 *)
(***************************************************************************)
Abs(x) == IF x < 0 THEN -x ELSE x

Sign(x) == IF x < 0 THEN -1 ELSE IF x > 0 THEN 1 ELSE 0

RECURSIVE GCD(_, _)
GCD(a, b) == IF b = 0 THEN a ELSE GCD(b, a % b)

\* The finite value n/d (d # 0), in lowest terms with a positive denominator.
Rat(n, d) ==
    LET g == GCD(Abs(n), Abs(d))
        s == IF d < 0 THEN -1 ELSE 1
    IN  [k |-> "fin", n |-> (s * n) \div g, d |-> Abs(d) \div g]

NaN == [k |-> "nan", n |-> 0, d |-> 1]

PosInf == [k |-> "inf", n |-> 1, d |-> 1]

NegInf == [k |-> "inf", n |-> -1, d |-> 1]

Inf(s) == IF s < 0 THEN NegInf ELSE PosInf

IsNaN(a) == a.k = "nan"

IsFinite(a) == a.k = "fin"

\* a < b of float64: false as soon as one side is NaN.
FLt(a, b) ==
    IF IsNaN(a) \/ IsNaN(b) THEN FALSE
    ELSE IF a.k = "inf" THEN a.n < 0 /\ ~(b.k = "inf" /\ b.n < 0)
    ELSE IF b.k = "inf" THEN b.n > 0
    ELSE a.n * b.d < b.n * a.d

\* a <= b of float64.
FLe(a, b) == ~IsNaN(a) /\ ~IsNaN(b) /\ ~FLt(b, a)

\* a / b of float64: x/0 is +-inf, 0/0 and inf/inf are NaN (zeros are +0.0).
FDiv(a, b) ==
    IF IsNaN(a) \/ IsNaN(b) THEN NaN
    ELSE IF a.k = "inf" THEN
        (IF b.k = "inf" THEN NaN ELSE Inf(a.n * (IF b.n < 0 THEN -1 ELSE 1)))
    ELSE IF b.k = "inf" THEN Rat(0, 1)
    ELSE IF b.n = 0 THEN (IF a.n = 0 THEN NaN ELSE Inf(a.n))
    ELSE Rat(a.n * b.d, a.d * b.n)

\* a * b of float64: inf * 0 is NaN.
FMul(a, b) ==
    IF IsNaN(a) \/ IsNaN(b) THEN NaN
    ELSE IF a.k = "inf" \/ b.k = "inf" THEN
        (IF a.n = 0 \/ b.n = 0 THEN NaN ELSE Inf(Sign(a.n) * Sign(b.n)))
    ELSE Rat(a.n * b.n, a.d * b.d)

\* a - b of float64: inf - inf is NaN.
FSub(a, b) ==
    IF IsNaN(a) \/ IsNaN(b) THEN NaN
    ELSE IF a.k = "inf" THEN (IF b.k = "inf" /\ a.n = b.n THEN NaN ELSE a)
    ELSE IF b.k = "inf" THEN Inf(-b.n)
    ELSE Rat(a.n * b.d - b.n * a.d, a.d * b.d)

\* numpy.abs
FAbs(a) == IF IsNaN(a) THEN NaN ELSE [a EXCEPT !.n = Abs(a.n)]

(***************************************************************************)
(* c * sqrt(r): the values a sample standard deviation and CV_obj take     *)
(***************************************************************************)
RECURSIVE ISqrtIn(_, _, _)
\* The largest x in lo..hi with x*x <= n (lo*lo <= n).
ISqrtIn(n, lo, hi) ==
    IF lo >= hi THEN lo
    ELSE LET mid == (lo + hi + 1) \div 2
         IN  IF mid * mid <= n THEN ISqrtIn(n, mid, hi)
             ELSE ISqrtIn(n, lo, mid - 1)

ISqrt(n) == ISqrtIn(n, 0, IF n < 46340 THEN n ELSE 46340)

IsSquare(n) == ISqrt(n) * ISqrt(n) = n

SNaN == [k |-> "nan", c |-> Rat(0, 1), r |-> Rat(1, 1)]

SInf(s) == [k |-> "inf", c |-> Rat(Sign(s), 1), r |-> Rat(1, 1)]

\* c * sqrt(r) for finite fractions c and r >= 0; a radicand that is a
\* perfect square is folded into the coefficient, so sqrt(100) is 10.
Surd(c, r) ==
    IF c.n = 0 \/ r.n = 0 THEN [k |-> "fin", c |-> Rat(0, 1), r |-> Rat(1, 1)]
    ELSE IF IsSquare(r.n) /\ IsSquare(r.d)
         THEN [k |-> "fin", c |-> FMul(c, Rat(ISqrt(r.n), ISqrt(r.d))), r |-> Rat(1, 1)]
         ELSE [k |-> "fin", c |-> c, r |-> r]

\* s / f for a standard deviation s and a float64 f.
SDivF(s, f) ==
    IF s.k = "nan" \/ IsNaN(f) THEN SNaN
    ELSE IF s.k = "inf" THEN (IF f.k = "inf" THEN SNaN
                              ELSE SInf(s.c.n * (IF f.n < 0 THEN -1 ELSE 1)))
    ELSE IF f.k = "inf" THEN Surd(Rat(0, 1), Rat(1, 1))
    ELSE IF f.n = 0 THEN (IF s.c.n = 0 THEN SNaN ELSE SInf(s.c.n))
    ELSE Surd(FDiv(s.c, f), s.r)

\* s * f for a finite float64 f.
SMulF(s, f) ==
    IF s.k = "nan" \/ IsNaN(f) THEN SNaN
    ELSE IF s.k = "inf" THEN (IF f.n = 0 THEN SNaN ELSE SInf(s.c.n * Sign(f.n)))
    ELSE Surd(FMul(s.c, f), s.r)

(***************************************************************************)
(* Aggregations of pandas over a sequence of integers                      *)
(***************************************************************************)
RECURSIVE Sum(_)
Sum(xs) == IF xs = <<>> THEN 0 ELSE Head(xs) + Sum(Tail(xs))

RECURSIVE SumSq(_)
SumSq(xs) == IF xs = <<>> THEN 0 ELSE Head(xs) * Head(xs) + SumSq(Tail(xs))

\* 'mean': NaN over no values.
Mean(xs) == IF xs = <<>> THEN NaN ELSE Rat(Sum(xs), Len(xs))

\* A population standard deviation (ddof = 0): 0 for a single value.
PopulationStd(xs) ==
    IF xs = <<>> THEN SNaN
    ELSE Surd(Rat(1, 1),
              Rat(Len(xs) * SumSq(xs) - Sum(xs) * Sum(xs), Len(xs) * Len(xs)))

\* 'std': the sample standard deviation (ddof = 1); NaN for fewer than two
\* values, since the estimator divides by n - 1.
SampleStd(xs) ==
    IF Len(xs) < 2 THEN SNaN
    ELSE Surd(Rat(1, 1),
              Rat(Len(xs) * SumSq(xs) - Sum(xs) * Sum(xs),
                  Len(xs) * (Len(xs) - 1)))

(***************************************************************************)
(* Tables                                                                  *)
(***************************************************************************)
\* A cell of a column that may hold a missing value (NaN after read_csv).
Num(v) == [na |-> FALSE, v |-> v]

Str(s) == [na |-> FALSE, v |-> s]

NAnum == [na |-> TRUE, v |-> 0]

NAstr == [na |-> TRUE, v |-> ""]

\* The labels that occur, in the order Python compares strings (code points:
\* "[" < "b" < "f" < "n" < "o"); group-by sorts its keys in this order.
LabelOrder == <<"[a]", "best", "first", "nan", "other">>

LabelRank(s) == CHOOSE i \in 1..Len(LabelOrder) : LabelOrder[i] = s

\* The position of value v of column col in the order of that column.
Ord(col, v) == IF col = "alpha" THEN v ELSE LabelRank(v)

\* astype(str) of an op_set cell: a missing value becomes the text "nan".
AsTypeStr(cell) == IF cell.na THEN Str("nan") ELSE Str(cell.v)

\* df['op_set_str'] = df['op_set'].astype(str), row by row.
WithOpSetStr(rows) ==
    [i \in 1..Len(rows) |->
        [strategy |-> rows[i].strategy, alpha |-> rows[i].alpha,
         op_set |-> rows[i].op_set, seed |-> rows[i].seed,
         final_obj |-> rows[i].final_obj, total_time |-> rows[i].total_time,
         iterations |-> rows[i].iterations,
         op_set_str |-> AsTypeStr(rows[i].op_set)]]

\* load_and_prepare_data: None when the file is absent, else the table
\* with op_set_str added.
LoadAndPrepareData(f) ==
    IF ~f.exists THEN [loaded |-> FALSE, rows |-> <<>>]
    ELSE [loaded |-> TRUE, rows |-> WithOpSetStr(f.rows)]

(***************************************************************************)
(* group-by                                                                *)
(***************************************************************************)
\* A row takes part in a group-by unless one of its key cells is missing
\* (dropna = True, the default).
HasKey(r, by) == \A i \in 1..Len(by) : ~r[by[i]].na

KeyOf(r, by) == [i \in 1..Len(by) |-> r[by[i]].v]

\* Keys compare as tuples, column by column.
KeyLt(a, b, by) ==
    \E i \in 1..Len(by) :
        /\ \A j \in 1..(i - 1) : a[j] = b[j]
        /\ Ord(by[i], a[i]) < Ord(by[i], b[i])

RECURSIVE SortKeys(_, _)
SortKeys(S, by) ==
    IF S = {} THEN <<>>
    ELSE LET m == CHOOSE k \in S : \A o \in S : ~KeyLt(o, k, by)
         IN  <<m>> \o SortKeys(S \ {m}, by)

\* The group keys of df.groupby(by), sorted (sort = True, the default).
GroupKeys(rows, by) ==
    SortKeys({KeyOf(rows[i], by) : i \in {j \in 1..Len(rows) : HasKey(rows[j], by)}}, by)

\* The rows of one group, in table order.
GroupRows(rows, by, key) ==
    SelectSeq(rows, LAMBDA r : HasKey(r, by) /\ KeyOf(r, by) = key)

\* One numeric column of a sequence of rows.
Col(rows, c) == [i \in 1..Len(rows) |-> rows[i][c]]

\* 'count': the number of cells that are not missing.
Count(rows, c) == Cardinality({i \in 1..Len(rows) : ~rows[i][c].na})

(***************************************************************************)
(* sort_values                                                             *)
(***************************************************************************)
\* Whether key a goes strictly before key b.
Before(a, b, ascending) == IF ascending THEN FLt(a, b) ELSE FLt(b, a)

\* The orders in which a sort may leave the rows: every arrangement in which
\* no row stands before a row whose key goes strictly before its own.
Orderings(rows, by, ascending) ==
    {[i \in 1..Len(rows) |-> rows[p[i]]] :
        p \in {q \in [1..Len(rows) -> 1..Len(rows)] :
                  /\ \A i, j \in 1..Len(rows) : q[i] = q[j] => i = j
                  /\ \A i, j \in 1..Len(rows) :
                        i < j => ~Before(rows[q[j]][by], rows[q[i]][by], ascending)}}

\* The rows left as they are.
Unsorted(rows, by, ascending) == {rows}

\* DataFrame.sort_values(by, ascending), as the set of frames it may return:
\* the rows in key order, the rows with a NaN key last in their previous
\* order (na_position = 'last').  The default kind, 'quicksort', is not a
\* stable sort: rows with equal keys come out in an order that depends on
\* the build, so every order of them is a possible result.
SortValues(rows, by, ascending) ==
    {s \o SelectSeq(rows, LAMBDA r : IsNaN(r[by])) :
        s \in Orderings(SelectSeq(rows, LAMBDA r : ~IsNaN(r[by])), by, ascending)}

(***************************************************************************)
(* analyze_quality_and_robustness                                          *)
(***************************************************************************)
QualityBy == <<"strategy", "alpha", "op_set_str">>

\* The direction of sort_values(by='mean_obj'): ascending in evaluator.py,
\* descending in evaluator_v2.py.
QualityAscending(v) == v = "min"

\* groupby(['strategy', 'alpha', 'op_set_str']).agg(...): one row per group.
QualityAgg(rows) ==
    LET keys == GroupKeys(rows, QualityBy)
    IN  [i \in 1..Len(keys) |->
            LET g == GroupRows(rows, QualityBy, keys[i])
            IN  [index |-> keys[i],
                 mean_obj |-> Mean(Col(g, "final_obj")),
                 std_obj |-> SampleStd(Col(g, "final_obj")),
                 mean_time |-> Mean(Col(g, "total_time")),
                 num_runs |-> Count(g, "seed")]]

\* std_obj / mean_obj * 100 in evaluator.py,
\* std_obj / |mean_obj| * 100 in evaluator_v2.py.
CVObj(v, std_obj, mean_obj) ==
    IF v = "min" THEN SMulF(SDivF(std_obj, mean_obj), Rat(100, 1))
    ELSE SMulF(SDivF(std_obj, FAbs(mean_obj)), Rat(100, 1))

\* quality_summary['CV_obj'] = ...: a column added to the sorted frame.
AddCV(v, summary) ==
    [i \in 1..Len(summary) |->
        [index |-> summary[i].index,
         mean_obj |-> summary[i].mean_obj,
         std_obj |-> summary[i].std_obj,
         mean_time |-> summary[i].mean_time,
         num_runs |-> summary[i].num_runs,
         CV_obj |-> CVObj(v, summary[i].std_obj, summary[i].mean_obj)]]

\* The frames analyze_quality_and_robustness may build: one per order the
\* sort may leave groups of equal mean_obj in.
QualitySummary(v, rows) ==
    {AddCV(v, s) : s \in SortValues(QualityAgg(rows), "mean_obj", QualityAscending(v))}

(***************************************************************************)
(* analyze_efficiency_and_tradeoff                                         *)
(***************************************************************************)
\* mean_obj * mean_time in evaluator.py, mean_obj / mean_time in v2.
PerformanceMetric(v, mean_obj, mean_time) ==
    IF v = "min" THEN FMul(mean_obj, mean_time) ELSE FDiv(mean_obj, mean_time)

\* groupby('strategy').agg(...) with the performance_metric column added.
EfficiencySummary(v, rows) ==
    LET keys == GroupKeys(rows, <<"strategy">>)
    IN  [i \in 1..Len(keys) |->
            LET g == GroupRows(rows, <<"strategy">>, keys[i])
                mo == Mean(Col(g, "final_obj"))
                mt == Mean(Col(g, "total_time"))
            IN  [index |-> keys[i],
                 mean_obj |-> mo,
                 mean_time |-> mt,
                 mean_iterations |-> Mean(Col(g, "iterations")),
                 performance_metric |-> PerformanceMetric(v, mo, mt)]]

\* The strategy table printed as built, in both variants.
ReportAsBuilt(v, summary) == {summary}

\* The strategy table as it may be printed: as built in evaluator.py, a copy
\* sorted descending by performance_metric in evaluator_v2.py.
EfficiencyReport(v, summary) ==
    IF v = "min" THEN {summary}
    ELSE SortValues(summary, "performance_metric", FALSE)

\* groupby('op_set_str').agg(...).sort_values(by='mean_time'): the frames
\* it may return.
OpSummary(rows) ==
    LET keys == GroupKeys(rows, <<"op_set_str">>)
        agg == [i \in 1..Len(keys) |->
                   LET g == GroupRows(rows, <<"op_set_str">>, keys[i])
                   IN  [index |-> keys[i],
                        mean_obj |-> Mean(Col(g, "final_obj")),
                        mean_time |-> Mean(Col(g, "total_time"))]]
    IN  SortValues(agg, "mean_time", TRUE)

HasIndex(summary, label) == \E i \in 1..Len(summary) : summary[i].index = <<label>>

\* summary.loc[label]
Loc(summary, label) ==
    summary[CHOOSE i \in 1..Len(summary) : summary[i].index = <<label>>]

\* Whether a .loc lookup of 'first' or of 'best' raises KeyError.
LocRaises(summary) == ~HasIndex(summary, "first") \/ ~HasIndex(summary, "best")

\* evaluator_v2.py wraps the comparison in try/except KeyError; evaluator.py
\* does not.
CatchesKeyError(v) == v = "max"

\* time_ratio = best.mean_time / first.mean_time
TimeRatio(summary) ==
    FDiv(Loc(summary, "best").mean_time, Loc(summary, "first").mean_time)

\* (first.mean_obj / best.mean_obj - 1) * 100 in evaluator.py,
\* (best.mean_obj / first.mean_obj - 1) * 100 in evaluator_v2.py.
QualityDiff(v, summary) ==
    IF v = "min"
    THEN FMul(FSub(FDiv(Loc(summary, "first").mean_obj,
                        Loc(summary, "best").mean_obj), Rat(1, 1)), Rat(100, 1))
    ELSE FMul(FSub(FDiv(Loc(summary, "best").mean_obj,
                        Loc(summary, "first").mean_obj), Rat(1, 1)), Rat(100, 1))

\* The comparison fires also when the two mean times are equal.
TradeoffFiresLe(summary) ==
    FLe(Loc(summary, "first").mean_time, Loc(summary, "best").mean_time)

\* if first.mean_time < best.mean_time
TradeoffFires(summary) ==
    FLt(Loc(summary, "first").mean_time, Loc(summary, "best").mean_time)

\* What the interpretation prints: nothing, or the two numbers.
Narrative(v, summary) ==
    IF LocRaises(summary) THEN <<>>
    ELSE IF TradeoffFires(summary)
         THEN <<[time_ratio |-> TimeRatio(summary),
                 quality_diff |-> QualityDiff(v, summary)]>>
         ELSE <<>>

(***************************************************************************)
(* visualize_results                                                       *)
(***************************************************************************)
\* groupby(['strategy', 'alpha']).agg(...).reset_index(); evaluator_v2.py
\* adds performance_metric = mean_obj / mean_time.
VisualAgg(v, rows) ==
    LET keys == GroupKeys(rows, <<"strategy", "alpha">>)
    IN  [i \in 1..Len(keys) |->
            LET g == GroupRows(rows, <<"strategy", "alpha">>, keys[i])
                mo == Mean(Col(g, "final_obj"))
                mt == Mean(Col(g, "total_time"))
            IN  IF v = "min"
                THEN [index |-> keys[i], mean_obj |-> mo, mean_time |-> mt]
                ELSE [index |-> keys[i], mean_obj |-> mo, mean_time |-> mt,
                      performance_metric |-> FDiv(mo, mt)]]

\* The frames handed to barplot, one per panel: two panels in evaluator.py,
\* three in evaluator_v2.py, the third of df_agg sorted descending by
\* performance_metric (in any of the orders the sort may return).
Panels(v, agg) ==
    IF v = "min" THEN {<<agg, agg>>}
    ELSE {<<agg, agg, ranked>> : ranked \in SortValues(agg, "performance_metric", FALSE)}

(***************************************************************************)
(* Input tables                                                            *)
(*                                                                         *)
(* No stage depends on the order of the rows of the table: group-by sorts  *)
(* its keys, mean, std and count are symmetric, and sort_values acts on    *)
(* the grouped frames only.  Init therefore draws                          *)
(* one table per multiset of rows: the rows are numbered and a table lists *)
(* its rows by non-decreasing number.                                      *)
(***************************************************************************)
\* Tables of the efficiency analysis: every cell present, three strategies,
\* objectives 0, 90 and 100, times 0, 1 and 5 seconds.
StrategiesE == <<"best", "first", "other">>

ObjsE == <<0, 90, 100>>

TimesE == <<0, 1, 5>>

NumRowsE == Len(StrategiesE) * Len(ObjsE) * Len(TimesE)

RowE(i) ==
    [strategy |-> Str(StrategiesE[(i % Len(StrategiesE)) + 1]),
     alpha |-> Num(1),
     op_set |-> Str("[a]"),
     seed |-> Num(1),
     final_obj |-> ObjsE[((i \div Len(StrategiesE)) % Len(ObjsE)) + 1],
     total_time |-> TimesE[((i \div (Len(StrategiesE) * Len(ObjsE))) % Len(TimesE)) + 1],
     iterations |-> 10 + i]

\* Tables of the quality analysis: two strategies, objectives -1, 0 and 1,
\* and at most one missing cell per row, in strategy, alpha, op_set or seed.
StrategiesQ == <<"best", "first">>

ObjsQ == <<-1, 0, 1>>

MissingQ == <<"none", "strategy", "alpha", "op_set", "seed">>

NumRowsQ == Len(StrategiesQ) * Len(ObjsQ) * Len(MissingQ)

RowQ(i) ==
    LET miss == MissingQ[((i \div (Len(StrategiesQ) * Len(ObjsQ))) % Len(MissingQ)) + 1]
    IN  [strategy |-> IF miss = "strategy" THEN NAstr
                      ELSE Str(StrategiesQ[(i % Len(StrategiesQ)) + 1]),
         alpha |-> IF miss = "alpha" THEN NAnum ELSE Num(1),
         op_set |-> IF miss = "op_set" THEN NAstr ELSE Str("[a]"),
         seed |-> IF miss = "seed" THEN NAnum ELSE Num(1),
         final_obj |-> ObjsQ[((i \div Len(StrategiesQ)) % Len(ObjsQ)) + 1],
         total_time |-> 1,
         iterations |-> 10 + i]

\* The non-decreasing sequences of at most MaxRows numbers in 0..(n - 1).
RowNumbers(n) ==
    UNION {{s \in [1..k -> 0..(n - 1)] : \A i \in 1..(k - 1) : s[i] <= s[i + 1]} :
           k \in 0..MaxRows}

TablesE == {[i \in 1..Len(s) |-> RowE(s[i])] : s \in RowNumbers(NumRowsE)}

TablesQ == {[i \in 1..Len(s) |-> RowQ(s[i])] : s \in RowNumbers(NumRowsQ)}

(***************************************************************************)
(* main_analysis                                                           *)
(***************************************************************************)
VARIABLES
    variant,            \* "min": evaluator.py, "max": evaluator_v2.py
    file,               \* RESULTS_FILE on disk: [exists, rows]
    pc,                 \* where main_analysis stands
    df,                 \* what load_and_prepare_data returned: [loaded, rows]
    calls,              \* the functions main_analysis has called, in order
    out,                \* the report sections printed, in order
    quality_summary,    \* the frame analyze_quality_and_robustness returned
    headline,           \* the rank-0 configuration it printed
    efficiency_summary, \* the strategy frame of analyze_efficiency_and_tradeoff
    efficiency_report,  \* that frame as printed
    op_summary,         \* the operator-set frame printed
    narrative,          \* the tradeoff numbers printed, if any
    plots               \* the frames visualize_results plotted

vars == <<variant, file, pc, df, calls, out, quality_summary, headline,
          efficiency_summary, efficiency_report, op_summary, narrative, plots>>

Variants == {"min", "max"}

NoFile == [exists |-> FALSE, rows |-> <<>>]

InitWith(tables) ==
    /\ variant \in Variants
    /\ file \in {NoFile} \cup {[exists |-> TRUE, rows |-> t] : t \in tables}
    /\ pc = "load"
    /\ df = [loaded |-> FALSE, rows |-> <<>>]
    /\ calls = <<>>
    /\ out = <<>>
    /\ quality_summary = <<>>
    /\ headline = <<>>
    /\ efficiency_summary = <<>>
    /\ efficiency_report = <<>>
    /\ op_summary = <<>>
    /\ narrative = <<>>
    /\ plots = <<>>

Init == InitWith(TablesE)

InitQuality == InitWith(TablesQ)

\* main_analysis goes on without looking at what the loader returned.
AfterLoadUnchecked(d) == "quality"

\* if df is None: return
AfterLoad(d) == IF ~d.loaded THEN "returned" ELSE "quality"

\* df = load_and_prepare_data(RESULTS_FILE), and the test of its result.
Load ==
    /\ pc = "load"
    /\ df' = LoadAndPrepareData(file)
    /\ calls' = Append(calls, "load_and_prepare_data")
    /\ out' = out \o <<IF file.exists THEN "data_loaded" ELSE "file_not_found">>
    /\ pc' = AfterLoad(df')
    /\ UNCHANGED <<variant, file, quality_summary, headline, efficiency_summary,
                   efficiency_report, op_summary, narrative, plots>>

\* analyze_quality_and_robustness(df).  quality_summary.index[0] raises
\* IndexError on a frame without rows, after the table has been printed.
Quality ==
    /\ pc = "quality"
    /\ calls' = Append(calls, "analyze_quality_and_robustness")
    /\ IF ~df.loaded
       THEN /\ pc' = "AttributeError"
            /\ out' = Append(out, "step1")
            /\ UNCHANGED <<quality_summary, headline>>
       ELSE \E qs \in QualitySummary(variant, df.rows) :
                IF qs = <<>>
                THEN /\ pc' = "IndexError"
                     /\ out' = out \o <<"step1", "quality_table">>
                     /\ UNCHANGED <<quality_summary, headline>>
                ELSE /\ pc' = "efficiency"
                     /\ out' = out \o <<"step1", "quality_table", "best_config">>
                     /\ quality_summary' = qs
                     /\ headline' = <<[config |-> qs[1].index,
                                       mean_obj |-> qs[1].mean_obj,
                                       CV_obj |-> qs[1].CV_obj]>>
    /\ UNCHANGED <<variant, file, df, efficiency_summary, efficiency_report,
                   op_summary, narrative, plots>>

\* analyze_efficiency_and_tradeoff(df).  Both tables are printed before the
\* comparison looks up 'first' and 'best'.
Efficiency ==
    /\ pc = "efficiency"
    /\ calls' = Append(calls, "analyze_efficiency_and_tradeoff")
    /\ LET es == EfficiencySummary(variant, df.rows)
       IN  /\ efficiency_summary' = es
           /\ efficiency_report' \in EfficiencyReport(variant, es)
           /\ op_summary' \in OpSummary(df.rows)
           /\ narrative' = Narrative(variant, es)
           /\ IF LocRaises(es) /\ ~CatchesKeyError(variant)
              THEN /\ pc' = "KeyError"
                   /\ out' = out \o <<"step2", "efficiency_table", "op_table">>
              ELSE /\ pc' = "visualize"
                   /\ out' = out \o <<"step2", "efficiency_table", "op_table">>
                                 \o (IF Narrative(variant, es) = <<>> THEN <<>>
                                     ELSE <<"tradeoff">>)
    /\ UNCHANGED <<variant, file, df, quality_summary, headline, plots>>

\* visualize_results(df), up to its call of plt.show(): the header is
\* printed, df_agg is built and the panels are drawn.  show() then blocks in
\* the event loop of the backend for as long as a figure window is open.
Visualize ==
    /\ pc = "visualize"
    /\ calls' = Append(calls, "visualize_results")
    /\ plots' \in Panels(variant, VisualAgg(variant, df.rows))
    /\ out' = Append(out, "step3")
    /\ pc' = "show"
    /\ UNCHANGED <<variant, file, df, quality_summary, headline,
                   efficiency_summary, efficiency_report, op_summary, narrative>>

\* plt.show() returns, once every figure window has been closed (at once on
\* a backend without windows), and visualize_results prints its last line.
\* Nothing obliges the windows to be closed: the wait may last for ever.
ShowReturns ==
    /\ pc = "show"
    /\ out' = Append(out, "plots_generated")
    /\ pc' = "report"
    /\ UNCHANGED <<variant, file, df, calls, quality_summary, headline,
                   efficiency_summary, efficiency_report, op_summary, narrative,
                   plots>>

\* The closing lines of main_analysis.
Report ==
    /\ pc = "report"
    /\ out' = Append(out, "analysis_complete")
    /\ pc' = "done"
    /\ UNCHANGED <<variant, file, df, calls, quality_summary, headline,
                   efficiency_summary, efficiency_report, op_summary, narrative,
                   plots>>

Next == Load \/ Quality \/ Efficiency \/ Visualize \/ ShowReturns \/ Report

Spec == Init /\ [][Next]_vars

SpecQuality == InitQuality /\ [][Next]_vars

(***************************************************************************)
(* Properties                                                              *)
(***************************************************************************)
Called(f) == \E i \in 1..Len(calls) : calls[i] = f

QualityReturned == quality_summary # <<>>

EfficiencyRan == Called("analyze_efficiency_and_tradeoff")

\* The strategies that have a row in the loaded table.
StrategiesPresent ==
    {df.rows[i].strategy.v : i \in {j \in 1..Len(df.rows) : ~df.rows[j].strategy.na}}

\* The rows of the loaded table that carry the key of a summary row.
RowsWithIndex(index) ==
    {j \in 1..Len(df.rows) :
        /\ ~df.rows[j].strategy.na /\ df.rows[j].strategy.v = index[1]
        /\ ~df.rows[j].alpha.na /\ df.rows[j].alpha.v = index[2]
        /\ df.rows[j].op_set_str.v = index[3]}

\* The (strategy, alpha, op_set_str) cells of a table row, missing or not.
TripleOf(r) == <<r.strategy, r.alpha, r.op_set_str>>

\* The key of a summary row, as cells.
IndexCells(index) == <<Str(index[1]), Num(index[2]), Str(index[3])>>

\* C1: when the input file does not exist, load_and_prepare_data returns
\* None and main_analysis ends at once: the loader is the only function
\* called, no summary is built, nothing is plotted and 'Analysis Complete'
\* is never printed; in both variants.
C1_MissingFileEndsPipeline ==
    (~file.exists /\ pc # "load") =>
        /\ pc = "returned"
        /\ ~df.loaded
        /\ calls = <<"load_and_prepare_data">>
        /\ out = <<"file_not_found">>
        /\ quality_summary = <<>> /\ headline = <<>>
        /\ efficiency_summary = <<>> /\ efficiency_report = <<>>
        /\ op_summary = <<>> /\ narrative = <<>> /\ plots = <<>>

\* C1 witness: the maximization variant has returned from main_analysis
\* after the loader found no file.
C1_Witness == ~file.exists /\ pc = "returned" /\ variant = "max"

\* C2 as claimed: whenever "first" or "best" has no row in the loaded table,
\* analyze_efficiency_and_tradeoff raises nothing, prints no tradeoff
\* numbers, and its strategy summary has a row for every strategy present;
\* in both variants.
C2_AsClaimed ==
    (EfficiencyRan /\ ~({"first", "best"} \subseteq StrategiesPresent)) =>
        /\ pc # "KeyError"
        /\ narrative = <<>>
        /\ \A i \in 1..Len(out) : out[i] # "tradeoff"
        /\ \A st \in StrategiesPresent : HasIndex(efficiency_summary, st)

\* C3 as claimed: the quality summary has exactly one row per distinct
\* (strategy, alpha, op_set_str) triple of the table, rows with a missing
\* key cell included, and num_runs is the number of table rows that carry
\* the triple, rows with a missing seed included.
C3_AsClaimed ==
    QualityReturned =>
        /\ {IndexCells(quality_summary[i].index) : i \in 1..Len(quality_summary)}
              = {TripleOf(df.rows[j]) : j \in 1..Len(df.rows)}
        /\ \A i, j \in 1..Len(quality_summary) :
              quality_summary[i].index = quality_summary[j].index => i = j
        /\ \A i \in 1..Len(quality_summary) :
              quality_summary[i].num_runs
                  = Cardinality(RowsWithIndex(quality_summary[i].index))

\* C4 as claimed: in both variants, every row of the quality summary with
\* mean_obj # 0 has CV_obj = std_obj / |mean_obj| * 100, which is not
\* negative when std_obj is defined.
C4_AsClaimed ==
    \A i \in 1..Len(quality_summary) :
        LET q == quality_summary[i]
        IN  (IsFinite(q.mean_obj) /\ q.mean_obj.n # 0) =>
                /\ q.CV_obj = SMulF(SDivF(q.std_obj, FAbs(q.mean_obj)), Rat(100, 1))
                /\ q.std_obj.k = "fin" => (q.CV_obj.k = "fin" /\ q.CV_obj.c.n >= 0)

\* C5: a group that has exactly one row in the table has an undefined (NaN)
\* std_obj and an undefined CV_obj in the quality summary, never 0; when it
\* is the rank-0 configuration the CV printed in the headline is NaN too.
C5_SingleRunUndefined ==
    \A i \in 1..Len(quality_summary) :
        LET q == quality_summary[i]
        IN  Cardinality(RowsWithIndex(q.index)) = 1 =>
                /\ q.std_obj.k = "nan"
                /\ q.CV_obj.k = "nan"
                /\ q.std_obj # Surd(Rat(0, 1), Rat(1, 1))
                /\ q.CV_obj # Surd(Rat(0, 1), Rat(1, 1))
                /\ i = 1 => headline[1].CV_obj.k = "nan"

\* C5 witness: a single-run group is the rank-0 configuration, ahead of a
\* group with several runs and a defined standard deviation.
C5_Witness ==
    /\ Len(quality_summary) >= 2
    /\ Cardinality(RowsWithIndex(quality_summary[1].index)) = 1
    /\ Cardinality(RowsWithIndex(quality_summary[2].index)) = 2
    /\ quality_summary[2].std_obj.k = "fin"
    /\ headline[1].config = quality_summary[1].index

\* C6 as claimed: a group whose mean_obj is 0 and whose std_obj is defined
\* never carries a non-finite CV_obj (NaN or infinity), the result of the
\* division by zero, into the returned summary row or into the CV of the
\* headline.
C6_AsClaimed ==
    /\ \A i \in 1..Len(quality_summary) :
          LET q == quality_summary[i]
          IN  (IsFinite(q.mean_obj) /\ q.mean_obj.n = 0 /\ q.std_obj.k = "fin")
                  => q.CV_obj.k = "fin"
    /\ (/\ QualityReturned
        /\ IsFinite(headline[1].mean_obj) /\ headline[1].mean_obj.n = 0
        /\ quality_summary[1].std_obj.k = "fin")
          => headline[1].CV_obj.k = "fin"

\* The mean objective of the group with the given key, from the table.
GroupMeanObj(key) ==
    LET xs == {j \in 1..Len(df.rows) :
                  HasKey(df.rows[j], QualityBy) /\ KeyOf(df.rows[j], QualityBy) = key}
    IN  [sum |-> Sum([j \in 1..Len(df.rows) |->
                         IF j \in xs THEN df.rows[j].final_obj ELSE 0]),
         n |-> Cardinality(xs)]

\* C7: the rows of the returned quality summary, CV_obj column included,
\* are in order of mean_obj, non-decreasing in the minimization variant and
\* non-increasing in the maximization variant; the headline is row 0 and no
\* group of the table has a smaller (resp. larger) mean objective.
C7_SortedByMeanObj ==
    QualityReturned =>
        /\ \A i \in 1..(Len(quality_summary) - 1) :
              IF variant = "min"
              THEN FLe(quality_summary[i].mean_obj, quality_summary[i + 1].mean_obj)
              ELSE FLe(quality_summary[i + 1].mean_obj, quality_summary[i].mean_obj)
        /\ headline = <<[config |-> quality_summary[1].index,
                         mean_obj |-> quality_summary[1].mean_obj,
                         CV_obj |-> quality_summary[1].CV_obj]>>
        /\ \A j \in 1..Len(df.rows) :
              HasKey(df.rows[j], QualityBy) =>
                  LET g == GroupMeanObj(KeyOf(df.rows[j], QualityBy))
                      h == headline[1].mean_obj
                  IN  IF variant = "min" THEN h.n * g.n <= g.sum * h.d
                      ELSE h.n * g.n >= g.sum * h.d

\* C7 witness: the sort moved a group: the summary has two rows that are
\* not in the order of their keys, with different mean objectives.
C7_Witness ==
    /\ Len(quality_summary) >= 2
    /\ KeyLt(quality_summary[2].index, quality_summary[1].index, QualityBy)
    /\ quality_summary[1].mean_obj # quality_summary[2].mean_obj
    /\ quality_summary[1].CV_obj.k = "fin"

\* The row of the strategy summary with the given label.
StrategyRow(label) ==
    efficiency_summary[CHOOSE i \in 1..Len(efficiency_summary) :
                           efficiency_summary[i].index[1] = label]

BothPresent ==
    /\ \E i \in 1..Len(efficiency_summary) : efficiency_summary[i].index[1] = "first"
    /\ \E i \in 1..Len(efficiency_summary) : efficiency_summary[i].index[1] = "best"

\* C8: with "first" and "best" both in the strategy summary, the tradeoff
\* is printed exactly when first.mean_time < best.mean_time; then
\* time_ratio * first.mean_time = best.mean_time (time_ratio is +inf when
\* first.mean_time is 0) and, in the minimization variant,
\* quality_diff * best.mean_obj = (first.mean_obj - best.mean_obj) * 100
\* (the float64 quotient by zero when best.mean_obj is 0).  first (time 1,
\* objective 100) and best (time 5, objective 90) give 5 and 100/9 = 11.11.
C8_Tradeoff ==
    (EfficiencyRan /\ BothPresent) =>
        LET f == StrategyRow("first")
            b == StrategyRow("best")
        IN  /\ (narrative # <<>>) <=> (f.mean_time.n * b.mean_time.d
                                          < b.mean_time.n * f.mean_time.d)
            /\ (narrative # <<>>) <=> (\E i \in 1..Len(out) : out[i] = "tradeoff")
            /\ narrative # <<>> =>
                  /\ Len(narrative) = 1
                  /\ IF f.mean_time.n = 0 THEN narrative[1].time_ratio = PosInf
                     ELSE /\ IsFinite(narrative[1].time_ratio)
                          /\ FMul(narrative[1].time_ratio, f.mean_time) = b.mean_time
                  /\ variant = "min" =>
                        IF b.mean_obj.n = 0
                        THEN narrative[1].quality_diff
                                = (IF f.mean_obj.n = 0 THEN NaN ELSE Inf(f.mean_obj.n))
                        ELSE /\ IsFinite(narrative[1].quality_diff)
                             /\ FMul(narrative[1].quality_diff, b.mean_obj)
                                   = FMul(FSub(f.mean_obj, b.mean_obj), Rat(100, 1))
            /\ (/\ variant = "min"
                /\ f.mean_time = Rat(1, 1) /\ f.mean_obj = Rat(100, 1)
                /\ b.mean_time = Rat(5, 1) /\ b.mean_obj = Rat(90, 1))
                  => narrative = <<[time_ratio |-> Rat(5, 1),
                                    quality_diff |-> Rat(100, 9)]>>

\* C8 witness: the minimization variant has compared first (time 1,
\* objective 100) with best (time 5, objective 90) and printed the tradeoff.
C8_Witness ==
    /\ variant = "min" /\ EfficiencyRan /\ BothPresent
    /\ StrategyRow("first").mean_time = Rat(1, 1)
    /\ StrategyRow("first").mean_obj = Rat(100, 1)
    /\ StrategyRow("best").mean_time = Rat(5, 1)
    /\ StrategyRow("best").mean_obj = Rat(90, 1)
    /\ narrative # <<>>

\* C9 as claimed: in both variants, each reported row of the strategy
\* summary has a performance_metric greater than or equal to that of the
\* row after it.
C9_AsClaimed ==
    \A i \in 1..(Len(efficiency_report) - 1) :
        FLe(efficiency_report[i + 1].performance_metric,
            efficiency_report[i].performance_metric)

\* C9 amended: evaluator_v2.py reports the rows of the strategy summary
\* sorted descending by performance_metric, the rows with a NaN metric last;
\* evaluator.py reports the summary as built, in ascending order of the
\* strategy label, whatever the metrics are.
C9_ReportOrder ==
    EfficiencyRan =>
        /\ Len(efficiency_report) = Len(efficiency_summary)
        /\ {efficiency_report[i] : i \in 1..Len(efficiency_report)}
              = {efficiency_summary[i] : i \in 1..Len(efficiency_summary)}
        /\ variant = "max" =>
              \A i \in 1..(Len(efficiency_report) - 1) :
                  \/ IsNaN(efficiency_report[i + 1].performance_metric)
                  \/ FLe(efficiency_report[i + 1].performance_metric,
                         efficiency_report[i].performance_metric)
        /\ variant = "min" =>
              \A i \in 1..(Len(efficiency_report) - 1) :
                  LabelRank(efficiency_report[i].index[1])
                      < LabelRank(efficiency_report[i + 1].index[1])

\* C9 witness: the maximization variant reported three strategies in an
\* order that is not the order of the summary, the last with a NaN metric.
C9_Witness ==
    /\ variant = "max" /\ EfficiencyRan
    /\ Len(efficiency_report) = 3
    /\ efficiency_report # efficiency_summary
    /\ IsNaN(efficiency_report[3].performance_metric)
    /\ FLt(efficiency_report[2].performance_metric,
           efficiency_report[1].performance_metric)

\* C10 as claimed: once a table has loaded, main_analysis never ends in an
\* uncaught error or an early return, and when it has ended it has called
\* the three stages once each, in order, and printed 'Analysis Complete'.
C10_AsClaimed ==
    file.exists =>
        /\ pc \in {"load", "quality", "efficiency", "visualize", "show", "report", "done"}
        /\ pc = "done" =>
              /\ calls = <<"load_and_prepare_data", "analyze_quality_and_robustness",
                           "analyze_efficiency_and_tradeoff", "visualize_results">>
              /\ out[Len(out)] = "analysis_complete"

====
